---- MODULE Spec2Model ----
(***************************************************************************)
(* Model of src/app.py: the two scoring functions, generate_plots and the   *)
(* module-level script that creates ./plots and renders four scenarios.     *)
(*                                                                          *)
(* Numbers.  A Python float is represented in fixed point: the integer v    *)
(* stands for v / Scale.  Every arithmetic step truncates to that           *)
(* resolution, as every float64 step rounds to 53 bits.  A datetime is a    *)
(* number of clock ticks (TicksPerSecond ticks per second stand for the     *)
(* 10^6 microseconds of datetime); a float number of seconds is kept in     *)
(* units of 1/(TicksPerSecond * SubTicks) s, finer than a tick, so that     *)
(* timedelta(seconds=...) has something to round.                           *)
(***************************************************************************)
EXTENDS Integers, Sequences, FiniteSets, TLC

\* ------------------------------------------------------------ resolutions
Scale == 1000
TicksPerSecond == 6
SubTicks == 3
SecScale == TicksPerSecond * SubTicks

\* ------------------------------------------------------------ float helpers
Abs(v) == IF v < 0 THEN 0 - v ELSE v

MulFx(a, b) == (a * b) \div Scale

\* exp(z) underflows to 0.0 in float64 once z < -745.13...
ExpUnderflow == 745

\* e^-1 at the model's resolution
InvE == (367879 * Scale) \div 1000000

\* e^-n for a natural n, by repeated multiplication; stops once it is 0
RECURSIVE ExpPow(_, _)
ExpPow(n, acc) ==
    IF n = 0 \/ acc = 0 THEN acc ELSE ExpPow(n - 1, MulFx(acc, InvE))

\* e^-t for 0 <= t < 1: the alternating series 1 - t + t^2/2! - t^3/3! + ...
RECURSIVE ExpSeries(_, _, _)
ExpSeries(t, k, term) ==
    IF term = 0 THEN 0
    ELSE term - ExpSeries(t, k + 1, (term * t) \div (Scale * (k + 1)))

\* np.exp(z); the script only ever passes z <= 0
Exp(z) ==
    LET a == 0 - z
    IN IF a \div Scale > ExpUnderflow THEN 0
       ELSE MulFx(ExpPow(a \div Scale, Scale), ExpSeries(a % Scale, 0, Scale))

\* ln 2 at the model's resolution
Ln2 == (693147 * Scale) \div 1000000

\* ln(m) for 1 <= m < 2: 2 * (z + z^3/3 + z^5/5 + ...), z = (m-1)/(m+1)
RECURSIVE AtanhSeries(_, _, _)
AtanhSeries(zz, k, pow) ==
    IF pow = 0 THEN 0
    ELSE pow \div k + AtanhSeries(zz, k + 2, MulFx(pow, zz))

\* ln(v) for v >= 1: halve v into [1, 2), ln v = n * ln 2 + ln m
RECURSIVE Ln(_)
Ln(v) ==
    IF v >= 2 * Scale THEN Ln2 + Ln(v \div 2)
    ELSE LET z == ((v - Scale) * Scale) \div (v + Scale)
         IN 2 * AtanhSeries(MulFx(z, z), 1, z)

\* np.log1p(v), v >= 0
Log1p(v) == Ln(Scale + v)

\* a power of two that is at least sqrt(n)
RECURSIVE SqrtGuess(_)
SqrtGuess(n) == IF n < 4 THEN 2 ELSE 2 * SqrtGuess(n \div 4)

\* floor of the square root of a natural: Newton's iteration from above
RECURSIVE Newton(_, _)
Newton(n, x) ==
    LET y == (x + n \div x) \div 2
    IN IF y >= x THEN x ELSE Newton(n, y)

ISqrt(n) == IF n = 0 THEN 0 ELSE Newton(n, SqrtGuess(n))

\* sqrt(v) in fixed point; sqrt(v) = 2 * sqrt(v / 4) keeps v * Scale in range
RECURSIVE Sqrt(_)
Sqrt(v) ==
    IF v >= 1000000 THEN 2 * Sqrt(v \div 4)
    ELSE ISqrt(v * Scale)

\* v ** 0.25, v >= 0
Pow025(v) == Sqrt(Sqrt(v))

\* np.linspace(start, stop, num): step = (stop - start) / (num - 1),
\* y[k] = start + k * step, and the last sample is set to stop itself
Linspace(start, stop, num) ==
    LET step == (stop - start) \div (num - 1)
    IN [k \in 1..num |-> IF k = num THEN stop ELSE start + (k - 1) * step]

\* ------------------------------------------------------------ scoring
epsilon == Scale \div 100

\* mutant: the descending formula in both branches
calculate_top_score_log_both(distance, bookmarks, is_descending) ==
    (Scale * Scale * Scale) \div ((distance + epsilon) * (distance + epsilon))
        + Log1p(bookmarks) * 2

\* mutant: the ascending formula in both branches
calculate_top_score_exp_both(distance, bookmarks, is_descending) ==
    (Scale * Scale * Scale) \div ((distance + epsilon) * (distance + epsilon))
        + Exp((0 - bookmarks) \div 5) * 20

calculate_top_score(distance, bookmarks, is_descending) ==
    LET distance_factor ==
            (Scale * Scale * Scale) \div ((distance + epsilon) * (distance + epsilon))
    IN IF is_descending
       THEN distance_factor + Log1p(bookmarks) * 2
       ELSE distance_factor + Exp((0 - bookmarks) \div 5) * 20

\* timedelta.total_seconds(): ticks to float seconds, exact
total_seconds(td) == td * SubTicks

\* float seconds / 3600, in fixed point of resolution 1/Scale hours
Hours(sec) ==
    LET d == 3600 * SecScale
    IN (sec \div d) * Scale + ((sec % d) * Scale) \div d

\* mutant: the squared distance term of calculate_top_score
calculate_date_score_squared(distance, item_date, reference_date, is_descending) ==
    LET base_score ==
            (Scale * Scale * Scale) \div ((distance + epsilon) * (distance + epsilon))
        date_difference == Hours(Abs(total_seconds(item_date - reference_date)))
    IN base_score + (IF is_descending
                     THEN Exp(0 - Pow025(Abs(date_difference))) * 100
                     ELSE Log1p(Pow025(Abs(date_difference))) * 1)

calculate_date_score(distance, item_date, reference_date, is_descending) ==
    LET base_score == (Scale * Scale) \div (distance + epsilon)
        date_difference == Hours(Abs(total_seconds(item_date - reference_date)))
        date_score ==
            IF is_descending
            THEN Exp(0 - Pow025(Abs(date_difference))) * 100
            ELSE Log1p(Pow025(Abs(date_difference))) * 1
    IN base_score + date_score

\* ------------------------------------------------------------ configuration
OUTPUT_DIR == "./plots"

NumSamples == 100

timedelta(ticks) == [type |-> "timedelta", ticks |-> ticks]
Number(n) == [type |-> "int", n |-> n]

Second == TicksPerSecond
Hour == 3600 * Second
Day == 24 * Hour
Week == 7 * Day

MkScale(y_lo, y_hi, label) ==
    [x_range |-> <<0, 1>>, y_range |-> <<y_lo, y_hi>>, label |-> label]

SCALES_BOOKMARKS ==
    << MkScale(Number(0), Number(10), "XS Range"),
       MkScale(Number(0), Number(100), "S Range"),
       MkScale(Number(0), Number(10000), "L Range"),
       MkScale(Number(0), Number(1000000), "XL Range") >>

SCALES_DATES ==
    << MkScale(timedelta(0 - Second), timedelta(Second), "Seconds Range"),
       MkScale(timedelta(0 - Hour), timedelta(Hour), "Hours Range"),
       MkScale(timedelta(0 - Day), timedelta(Day), "Days Range"),
       MkScale(timedelta(0 - Week), timedelta(Week), "Weeks Range"),
       MkScale(timedelta(0 - 4 * Week), timedelta(4 * Week), "Months Range"),
       MkScale(timedelta(0 - 52 * Week), timedelta(52 * Week), "Years Range") >>

sort_options ==
    << "EmbedTopAsc", "EmbedTopDesc", "EmbedDateCreatedAsc", "EmbedDateCreatedDesc" >>

\* the arguments of the generate_plots call on a line of the script
CallArgs(line) ==
    CASE line = 157 -> [scenario |-> sort_options[1], scales |-> SCALES_BOOKMARKS]
      [] line = 158 -> [scenario |-> sort_options[2], scales |-> SCALES_BOOKMARKS]
      [] line = 159 -> [scenario |-> sort_options[3], scales |-> SCALES_DATES]
      [] line = 160 -> [scenario |-> sort_options[4], scales |-> SCALES_DATES]

CallLines == {157, 158, 159, 160}

\* the statement that follows a statement of the script; 0 is a caller
\* other than the script
NextLine(line) ==
    CASE line = 18 -> 157
      [] line \in {157, 158, 159} -> line + 1
      [] line = 160 -> 162
      [] line = 162 -> 163
      [] OTHER -> line

\* ------------------------------------------------------------ generate_plots
\* sub in s
Contains(sub, s) ==
    \E i \in 1..(Len(s) - Len(sub) + 1) : SubSeq(s, i, i + Len(sub) - 1) = sub

\* mutant: the flag taken from the wrong substring
IsDescendingAsc(scenario) == Contains("Asc", scenario)

IsDescending(scenario) == Contains("Desc", scenario)

\* plt.subplots(n, 1): an array of n Axes, squeezed to the bare Axes for n = 1
Subplots(n) ==
    IF n = 1 THEN [type |-> "Axes", index |-> 1]
    ELSE [type |-> "ndarray", items |-> [i \in 1..n |-> [type |-> "Axes", index |-> i]]]

\* a bare Axes cannot be iterated; an array of Axes can
Iterable(a) == a.type = "ndarray"

BlankPanel == [drawn |-> FALSE]

NewFigure(scenario, n) ==
    [suptitle |-> "Scenario: " \o scenario, panels |-> [k \in 1..n |-> BlankPanel]]

IsTimedelta(v) == v.type = "timedelta"

Float(v) == v.n * Scale

\* timedelta(seconds=sec): float seconds to ticks, rounded half to even
TimedeltaOfSeconds(sec) ==
    LET q == sec \div SubTicks
        r == sec % SubTicks
    IN IF 2 * r < SubTicks THEN q
       ELSE IF 2 * r > SubTicks THEN q + 1
       ELSE IF q % 2 = 0 THEN q ELSE q + 1

XPoints(x_range) == Linspace(x_range[1] * Scale, x_range[2] * Scale, NumSamples)

\* mutant: the date samples are the offsets alone, not offsets from ref_date
YPointsNoRef(y_range, ref_date) ==
    IF y_range[1].type = "timedelta"
    THEN LET secs == Linspace(total_seconds(y_range[1].ticks),
                              total_seconds(y_range[2].ticks), NumSamples)
         IN [i \in 1..NumSamples |-> TimedeltaOfSeconds(secs[i])]
    ELSE Linspace(y_range[1].n * Scale, y_range[2].n * Scale, NumSamples)

YPoints(y_range, ref_date) ==
    IF IsTimedelta(y_range[1])
    THEN LET secs == Linspace(total_seconds(y_range[1].ticks),
                              total_seconds(y_range[2].ticks), NumSamples)
         IN [i \in 1..NumSamples |-> ref_date + TimedeltaOfSeconds(secs[i])]
    ELSE Linspace(Float(y_range[1]), Float(y_range[2]), NumSamples)

\* mutant: the comprehension nested the other way round
ScoresTransposed(y_range, x_points, y_points, ref_date, is_descending) ==
    IF y_range[1].type = "timedelta"
    THEN [i \in 1..Len(x_points) |-> [j \in 1..Len(y_points) |->
            calculate_date_score(x_points[i], y_points[j], ref_date, is_descending)]]
    ELSE [i \in 1..Len(x_points) |-> [j \in 1..Len(y_points) |->
            calculate_top_score(x_points[i], y_points[j], is_descending)]]

\* the nested comprehension: one row per y sample, one column per x sample
Scores(y_range, x_points, y_points, ref_date, is_descending) ==
    IF IsTimedelta(y_range[1])
    THEN [i \in 1..Len(y_points) |-> [j \in 1..Len(x_points) |->
            calculate_date_score(x_points[j], y_points[i], ref_date, is_descending)]]
    ELSE [i \in 1..Len(y_points) |-> [j \in 1..Len(x_points) |->
            calculate_top_score(x_points[j], y_points[i], is_descending)]]

\* what imshow, set_title, set_xlabel and set_ylabel leave on an Axes; the
\* pixels, the axis extent and the colour scale are not modelled
Panel(scale, grid) ==
    [drawn |-> TRUE,
     title |-> scale.label,
     xlabel |-> "Distance",
     ylabel |-> IF IsTimedelta(scale.y_range[1]) THEN "Date" ELSE "Bookmarks",
     shape |-> << Len(grid), Len(grid[1]) >>]

\* mutant: the file name without its _combined suffix
SavePathNoSuffix(scenario) == OUTPUT_DIR \o "/" \o scenario \o ".png"

SavePath(scenario) == OUTPUT_DIR \o "/" \o scenario \o "_combined.png"

\* ------------------------------------------------------------ file system
Exists(f, path) == path \in f.dirs \/ path \in DOMAIN f.files

Makedirs(f, path) == [f EXCEPT !.dirs = @ \cup {path}]

\* mutant: the write replaces the directory's content
WriteFileClobber(f, path, content) == [f EXCEPT !.files = (path :> content)]

WriteFile(f, path, content) == [f EXCEPT !.files = (path :> content) @@ @]

\* ------------------------------------------------------------ state
VARIABLES
    pc,             \* the line of the script being executed (163: finished)
    gp,             \* position inside generate_plots, "idle" outside it
    exc,            \* the exception that ended the run, "none" while running
    fs,             \* file system: directories, and files with their content
    stdout,         \* lines printed
    clock,          \* wall clock, in ticks
    scenario, scales, fig, axes, is_descending,   \* locals of generate_plots
    k,              \* number of (ax, scale) pairs the loop has taken
    ref_date, x_points, y_points, scores,
    call, ret       \* a direct call of a scoring function and what it returned

vars == << pc, gp, exc, fs, stdout, clock, scenario, scales, fig, axes,
           is_descending, k, ref_date, x_points, y_points, scores, call, ret >>

script == << pc, gp, exc, fs, stdout, clock >>
locals == << scenario, scales, fig, axes, is_descending, k >>
sample == << ref_date, x_points, y_points, scores >>

\* the locals of generate_plots outside a call
NoFigure == [suptitle |-> "", panels |-> << >>]
NoAxes == [type |-> "None"]

NoLocals ==
    /\ scenario = "" /\ scales = << >> /\ fig = NoFigure /\ axes = NoAxes
    /\ is_descending = FALSE /\ k = 0
    /\ ref_date = 0 /\ x_points = << >> /\ y_points = << >> /\ scores = << >>

NoCall == [fn |-> "none"]

\* ------------------------------------------------------------ environment
ClockStart == 777
ClockJump == 36001
MaxJumps == 1

\* datetime.now(): the clock as it stands, or after it has moved on
Now ==
    {clock} \cup
    (IF clock < ClockStart + MaxJumps * ClockJump THEN {clock + ClockJump} ELSE {})

TextFile(data) == [kind |-> "text", data |-> data]
PngFile(image) == [kind |-> "png", image |-> image]
Truncated == [kind |-> "truncated"]

\* an image left behind by something else than this run
StaleImage == PngFile(NoFigure)

\* what the working directory may hold when the script starts
InitialFS ==
    { [dirs |-> {"."}, files |-> ("./app.py" :> TextFile("source"))],
      [dirs |-> {".", OUTPUT_DIR}, files |-> ("./app.py" :> TextFile("source"))],
      [dirs |-> {".", OUTPUT_DIR},
       files |-> ("./app.py" :> TextFile("source"))
                 @@ ("./plots/notes.txt" :> TextFile("notes"))
                 @@ ("./plots/EmbedTopAsc_combined.png" :> StaleImage)
                 @@ ("./plots/EmbedTopDesc_combined.jpg" :> StaleImage)] }

\* mutant: every failure is caught and the script carries on
RunningRegardless == TRUE

\* a statement runs only while no exception is pending: nothing in the
\* script catches one
Running == exc = "none"

\* ------------------------------------------------------------ the script
Init ==
    /\ pc = 18 /\ gp = "idle" /\ exc = "none"
    /\ fs \in InitialFS
    /\ stdout = << >>
    /\ clock = ClockStart
    /\ NoLocals
    /\ call = NoCall /\ ret = << >>

\* lines 18-19
MakeOutputDir ==
    /\ Running /\ pc = 18 /\ gp = "idle"
    /\ \/ Exists(fs, OUTPUT_DIR) /\ fs' = fs
       \/ ~Exists(fs, OUTPUT_DIR) /\ fs' = Makedirs(fs, OUTPUT_DIR)
    /\ pc' = NextLine(pc)
    /\ UNCHANGED << gp, exc, stdout, clock, locals, sample, call, ret >>

\* line 19: os.makedirs raises OSError
MakeOutputDirFails ==
    /\ Running /\ pc = 18 /\ gp = "idle"
    /\ ~Exists(fs, OUTPUT_DIR)
    /\ exc' = "OSError"
    /\ UNCHANGED << pc, gp, fs, stdout, clock, locals, sample, call, ret >>

\* lines 157-160: bind the arguments of generate_plots
ScriptCall ==
    /\ Running /\ pc \in CallLines /\ gp = "idle"
    /\ scenario' = CallArgs(pc).scenario
    /\ scales' = CallArgs(pc).scales
    /\ gp' = "entry"
    /\ UNCHANGED << pc, exc, fs, stdout, clock, fig, axes, is_descending, k,
                    sample, call, ret >>

\* lines 90-94
GP_Enter ==
    /\ Running /\ gp = "entry"
    /\ fig' = NewFigure(scenario, Len(scales))
    /\ axes' = Subplots(Len(scales))
    /\ is_descending' = IsDescending(scenario)
    /\ k' = 0
    /\ gp' = "loop"
    /\ UNCHANGED << pc, exc, fs, stdout, clock, scenario, scales, sample, call, ret >>

ZipLen == IF Len(axes.items) < Len(scales) THEN Len(axes.items) ELSE Len(scales)

\* lines 96-124: one iteration of the loop over zip(axes, scales)
GP_Scale ==
    /\ Running /\ gp = "loop" /\ Iterable(axes) /\ k < ZipLen
    /\ LET ax == axes.items[k + 1]
           scale == scales[k + 1]
           x_range == scale.x_range
           y_range == scale.y_range
       IN /\ \E now \in (IF IsTimedelta(y_range[1]) THEN Now ELSE {clock}) :
                /\ clock' = now
                /\ ref_date' = IF IsTimedelta(y_range[1]) THEN now ELSE ref_date
          /\ x_points' = XPoints(x_range)
          /\ y_points' = YPoints(y_range, ref_date')
          /\ scores' = Scores(y_range, x_points', y_points', ref_date', is_descending)
          /\ fig' = [fig EXCEPT !.panels[ax.index] = Panel(scale, scores')]
    /\ k' = k + 1
    /\ UNCHANGED << pc, gp, exc, fs, stdout, scenario, scales, axes, is_descending,
                    call, ret >>

\* line 96: zip() over a bare Axes raises TypeError
GP_ZipTypeError ==
    /\ Running /\ gp = "loop" /\ ~Iterable(axes)
    /\ exc' = "TypeError"
    /\ UNCHANGED << pc, gp, fs, stdout, clock, locals, sample, call, ret >>

LoopDone == gp = "loop" /\ Iterable(axes) /\ k = ZipLen

\* lines 126-128, and the return to the caller
GP_SaveFig ==
    /\ Running /\ LoopDone
    /\ fs' = WriteFile(fs, SavePath(scenario), PngFile(fig))
    /\ gp' = "idle"
    /\ pc' = NextLine(pc)
    /\ scenario' = "" /\ scales' = << >> /\ fig' = NoFigure /\ axes' = NoAxes
    /\ is_descending' = FALSE /\ k' = 0
    /\ ref_date' = 0 /\ x_points' = << >> /\ y_points' = << >> /\ scores' = << >>
    /\ UNCHANGED << exc, stdout, clock, call, ret >>

\* line 127: savefig raises OSError, having written nothing or part of the file
GP_SaveFigFails ==
    /\ Running /\ LoopDone
    /\ \/ fs' = fs
       \/ fs' = WriteFile(fs, SavePath(scenario), Truncated)
    /\ exc' = "OSError"
    /\ UNCHANGED << pc, gp, stdout, clock, locals, sample, call, ret >>

\* line 162
PrintDone ==
    /\ Running /\ pc = 162 /\ gp = "idle"
    /\ stdout' = Append(stdout, "Plots generated successfully! Exiting...")
    /\ pc' = NextLine(pc)
    /\ UNCHANGED << gp, exc, fs, clock, locals, sample, call, ret >>

Next ==
    \/ MakeOutputDir
    \/ MakeOutputDirFails
    \/ ScriptCall
    \/ GP_Enter
    \/ GP_Scale
    \/ GP_SaveFig
    \/ GP_SaveFigFails
    \/ PrintDone

Spec == Init /\ [][Next]_vars
\* ------------------------------------------------------------ direct calls
\* generate_plots called with a scenario and a list of scales of the caller's
MaxScales == 3

GenScenarios == {sort_options[1], sort_options[4]}
GenScalePool == {SCALES_BOOKMARKS[1], SCALES_DATES[2]}
GenScaleLists == UNION {[1..n -> GenScalePool] : n \in 1..MaxScales}

InitGen ==
    /\ pc = 0 /\ gp = "entry" /\ exc = "none"
    /\ fs = [dirs |-> {".", OUTPUT_DIR}, files |-> ("./app.py" :> TextFile("source"))]
    /\ stdout = << >>
    /\ clock = ClockStart
    /\ scenario \in GenScenarios
    /\ scales \in GenScaleLists
    /\ fig = NoFigure /\ axes = NoAxes /\ is_descending = FALSE /\ k = 0
    /\ ref_date = 0 /\ x_points = << >> /\ y_points = << >> /\ scores = << >>
    /\ call = NoCall /\ ret = << >>

NextGen ==
    \/ GP_Enter
    \/ GP_Scale
    \/ GP_ZipTypeError
    \/ GP_SaveFig
    \/ GP_SaveFigFails

SpecGen == InitGen /\ [][NextGen]_vars

\* the scoring functions called with arguments of the caller's
MaxBookmarks == 12
DistanceStride == 9
MaxOffset == 8

DistanceInputs ==
    {XPoints(<<0, 1>>)[j] : j \in {i \in 1..NumSamples : (i - 1) % DistanceStride = 0}}

\* small bookmark counts, and the two largest counts the script samples
BookmarkInputs == (0..MaxBookmarks) \cup {10000, 1000000}

\* offsets of an item's date from the reference date, in ticks
OffsetInputs == (0..MaxOffset) \cup {Hour, Day, 52 * Week}

TopCalls ==
    [fn : {"top"}, distance : DistanceInputs, b1 : BookmarkInputs,
     b2 : BookmarkInputs, is_descending : BOOLEAN]

DateCalls ==
    [fn : {"date"}, distance : DistanceInputs, reference_date : {ClockStart, ClockStart + ClockJump},
     offset : OffsetInputs, is_descending : BOOLEAN]

InitScore ==
    /\ pc = 0 /\ gp = "idle" /\ exc = "none"
    /\ fs = [dirs |-> {"."}, files |-> ("./app.py" :> TextFile("source"))]
    /\ stdout = << >>
    /\ clock = ClockStart
    /\ NoLocals
    /\ call \in TopCalls \cup DateCalls
    /\ ret = << >>

\* calculate_top_score at two bookmark counts
CallTopScore ==
    /\ call.fn = "top" /\ ret = << >>
    /\ ret' = << calculate_top_score(call.distance, call.b1 * Scale, call.is_descending),
                 calculate_top_score(call.distance, call.b2 * Scale, call.is_descending) >>
    /\ UNCHANGED << script, locals, sample, call >>

\* calculate_date_score for an item after and before the reference date
CallDateScore ==
    /\ call.fn = "date" /\ ret = << >>
    /\ ret' = << calculate_date_score(call.distance, call.reference_date + call.offset,
                                      call.reference_date, call.is_descending),
                 calculate_date_score(call.distance, call.reference_date - call.offset,
                                      call.reference_date, call.is_descending) >>
    /\ UNCHANGED << script, locals, sample, call >>

NextScore ==
    \/ CallTopScore
    \/ CallDateScore

SpecScore == InitScore /\ [][NextScore]_vars
\* ------------------------------------------------------------ properties
CompletionMessage == "Plots generated successfully! Exiting..."

FourImages ==
    { "./plots/EmbedTopAsc_combined.png",
      "./plots/EmbedTopDesc_combined.png",
      "./plots/EmbedDateCreatedAsc_combined.png",
      "./plots/EmbedDateCreatedDesc_combined.png" }

\* the files this run has written an image to
Written ==
    {p \in DOMAIN fs.files : fs.files[p].kind = "png" /\ fs.files[p].image # NoFigure}

\* the files this run has touched, completely or not
Touched == Written \cup {p \in DOMAIN fs.files : fs.files[p] = Truncated}

\* C1: a run that reaches its end has written exactly the four images
\* EmbedTopAsc_combined.png, EmbedTopDesc_combined.png,
\* EmbedDateCreatedAsc_combined.png and EmbedDateCreatedDesc_combined.png into
\* ./plots, and the completion message is on stdout only once all four are
\* written.
C1_FourImagesThenMessage ==
    /\ Written \subseteq FourImages
    /\ stdout # << >> => FourImages \subseteq Written
    /\ pc = 163 => /\ stdout = << CompletionMessage >>
                   /\ Written = FourImages
                   /\ Cardinality(Written) = 4

C1_Witness == pc = 163 /\ exc = "none" /\ Written = FourImages /\ Len(stdout) = 1

DescScenarios == {"EmbedTopDesc", "EmbedDateCreatedDesc"}

\* C2: inside generate_plots the orientation flag is true exactly for the
\* scenarios EmbedTopDesc and EmbedDateCreatedDesc, and every cell of every
\* scale's grid is scored with that value.
C2_FlagFromName ==
    gp = "loop" =>
        /\ is_descending = (scenario \in DescScenarios)
        /\ k > 0 =>
              \A i \in 1..Len(scores) : \A j \in 1..Len(scores[i]) :
                 scores[i][j] =
                    IF IsTimedelta(scales[k].y_range[1])
                    THEN calculate_date_score(x_points[j], y_points[i], ref_date,
                                              scenario \in DescScenarios)
                    ELSE calculate_top_score(x_points[j], y_points[i],
                                             scenario \in DescScenarios)

C2_Witness ==
    /\ gp = "loop" /\ scenario = "EmbedDateCreatedDesc" /\ k = 6 /\ is_descending
    /\ scores[50][50] # calculate_date_score(x_points[50], y_points[50], ref_date, FALSE)

\* C3: every scale's grid has 100 rows and 100 columns; row i, column j holds
\* the score of the i-th y sample and the j-th x sample, by the temporal
\* formula when the y-range is a time-offset interval and by the popularity
\* formula when it is numeric.
C3_GridShapeAndCells ==
    (gp = "loop" /\ k > 0) =>
        /\ Len(x_points) = 100 /\ Len(y_points) = 100
        /\ Len(scores) = 100
        /\ \A i \in 1..100 :
              /\ Len(scores[i]) = 100
              /\ \A j \in 1..100 :
                    scores[i][j] =
                       IF scales[k].y_range[1].type = "timedelta"
                       THEN calculate_date_score(x_points[j], y_points[i], ref_date,
                                                 is_descending)
                       ELSE calculate_top_score(x_points[j], y_points[i], is_descending)

C3_Witness ==
    /\ gp = "loop" /\ k = 4 /\ scenario = "EmbedTopAsc"
    /\ Len(scores) = 100
    /\ scores[1][100] # scores[100][1]

\* C4: for any scenario and any list of scales, one scale included,
\* generate_plots gets as far as an image with one drawn panel per scale,
\* titled with the scale's label.
C4_OnePanelPerScale ==
    /\ exc # "TypeError"
    /\ LoopDone =>
          /\ Len(fig.panels) = Len(scales)
          /\ \A i \in 1..Len(scales) :
                fig.panels[i].drawn /\ fig.panels[i].title = scales[i].label

\* C5 as stated: calculate_top_score(d, b, False) is strictly decreasing in b.
C5_StrictlyDecreasing ==
    (call.fn = "top" /\ ~call.is_descending /\ ret # << >> /\ call.b1 < call.b2)
        => ret[1] > ret[2]

\* C5 as amended: calculate_top_score(d, b, False) never increases with b; it
\* decreases strictly over small bookmark counts, and is the bare distance
\* factor, the same for every b, once exp(-b/5) has underflowed.
C5_NonIncreasing ==
    (call.fn = "top" /\ ~call.is_descending /\ ret # << >> /\ call.b1 < call.b2)
        => /\ ret[1] >= ret[2]
           /\ call.b2 <= MaxBookmarks => ret[1] > ret[2]
           /\ call.b1 > 5 * ExpUnderflow =>
                 /\ ret[1] = ret[2]
                 /\ ret[1] = (Scale * Scale * Scale)
                                \div ((call.distance + epsilon) * (call.distance + epsilon))

C5_Witness ==
    /\ call.fn = "top" /\ ~call.is_descending /\ ret # << >>
    /\ call.b1 = 10000 /\ call.b2 = 1000000 /\ ret[1] = ret[2]

\* C6: for d > 0 and b > 0, calculate_top_score(d, b, True) is strictly
\* greater than calculate_top_score(d, 0, True).
C6_DescendingAboveZero ==
    (call.fn = "top" /\ call.is_descending /\ ret # << >>
       /\ call.distance > 0 /\ call.b1 > 0 /\ call.b2 = 0)
        => ret[1] > ret[2]

C6_Witness ==
    /\ call.fn = "top" /\ call.is_descending /\ ret # << >>
    /\ call.distance > 0 /\ call.b1 = 1 /\ call.b2 = 0 /\ ret[1] > ret[2]

C8_FailureIsFatal ==
    /\ [](exc = "OSError" => stdout = << >>)
    /\ [][exc = "OSError" => UNCHANGED vars]_vars

C8_Witness ==
    /\ exc = "OSError" /\ pc = 158 /\ gp = "loop"
    /\ Written = {"./plots/EmbedTopAsc_combined.png"}

\* C9: a step of the run changes the file system only by creating ./plots
\* when it is absent, before any image is written, or by creating or
\* overwriting one of the four <scenario>_combined.png files in it; every
\* other file and directory stays as it is.
C9_FrameOfFileSystem ==
    [][ /\ \A p \in DOMAIN fs.files :
              p \notin FourImages => (p \in DOMAIN fs'.files /\ fs'.files[p] = fs.files[p])
        /\ (DOMAIN fs'.files \ DOMAIN fs.files) \subseteq FourImages
        /\ DOMAIN fs.files \subseteq DOMAIN fs'.files
        /\ fs.dirs \subseteq fs'.dirs
        /\ fs'.dirs \subseteq fs.dirs \cup {OUTPUT_DIR}
        /\ fs'.dirs # fs.dirs => (pc = 18 /\ fs'.files = fs.files /\ Touched = {})
        /\ fs'.files # fs.files => OUTPUT_DIR \in fs.dirs
      ]_vars

C9_Witness ==
    /\ pc = 163 /\ Written = FourImages
    /\ "./plots/notes.txt" \in DOMAIN fs.files
    /\ fs.files["./plots/notes.txt"] = TextFile("notes")
    /\ fs.files["./plots/EmbedTopDesc_combined.jpg"] = StaleImage
    /\ fs.files["./app.py"] = TextFile("source")

\* C10: the grid of a date scale does not depend on the reference date read
\* from the clock: each cell is the score of the distance sample, the absolute
\* value of the sampled offset and the orientation.
C10_GridIgnoresClock ==
    (gp = "loop" /\ k > 0 /\ IsTimedelta(scales[k].y_range[1])) =>
        LET secs == Linspace(total_seconds(scales[k].y_range[1].ticks),
                             total_seconds(scales[k].y_range[2].ticks), NumSamples)
            offset == [i \in 1..NumSamples |-> Abs(TimedeltaOfSeconds(secs[i]))]
        IN \A i \in 1..NumSamples : \A j \in 1..NumSamples :
              scores[i][j] = calculate_date_score(x_points[j], offset[i], 0, is_descending)

C10_Witness ==
    /\ gp = "loop" /\ k = 3 /\ scenario = "EmbedDateCreatedAsc"
    /\ ref_date = ClockStart + ClockJump
    /\ scores[1][1] # scores[50][1]
====
